---- MODULE Spec2Model ----
(***************************************************************************)
(* State-machine model of ts_audiotrigger:                                 *)
(*   - LaserAlignmentListener (python/lsst/ts/audiotrigger/                *)
(*     laser_alignment_listener.py): the audio loop, the interlock relay   *)
(*     and the start/stop/restart operations;                              *)
(*   - SerialTemperatureScanner (read_serial_temp_scanner.py) and the     *)
(*     Runner shutdown path (runner.py).                                   *)
(* Every asyncio task is a process with a program counter; one step of a   *)
(* process runs from one suspension point (await) to the next.             *)
(***************************************************************************)
EXTENDS Integers, Sequences, FiniteSets, TLC

(***************************************************************************)
(* Program constants                                                       *)
(***************************************************************************)
count_threshold == 7
relay_gpio == 7
\* variant: the fan is wired to the pin of the interlock relay
fan_gpio_relay_pin == relay_gpio
fan_gpio == 4
THRESHOLD == 10
RelayON == 1
RelayOFF == 0
FanON == 1
FanOFF == 0

(***************************************************************************)
(* Bounds of the model                                                     *)
(***************************************************************************)
\* cap of the history counter of consecutive detections
MaxRun == 9
\* largest peak / background PSD value of a recorded buffer
MaxPeak == 11
MaxBkg == 1

\* length of the rolling window (temperature_windows, default 8)
temperature_windows == 2
\* highest temperature a sensor reports
MaxTemp == 25

Pins == {fan_gpio, relay_gpio}

\* SerialTemperatureScanner.config()
sensor_dict ==
    [C01 |-> "Ambient", C02 |-> "Laser", C03 |-> "FC", C04 |-> "A",
     C05 |-> "B", C06 |-> "C", C07 |-> "D", C08 |-> "E"]
fan_sensor == "Ambient"
fan_turn_on_temp == 25
hysteresis == 2
fan_turn_off_temp == fan_turn_on_temp - hysteresis

\* A recorded buffer, abstracted to what analyze_data extracts from it: the
\* maximum PSD in 995-1005 Hz, the median PSD in 950-1050 Hz, and whether the
\* computation raises (empty band, missing sample rate, ...).
Buffers == [peak : {0, MaxPeak - 1, MaxPeak}, bkg : 0..MaxBkg, raises : BOOLEAN]
NoBuffer == [peak |-> 0, bkg |-> 0, raises |-> FALSE]

VARIABLES
    count,              \* LaserAlignmentListener.count (hit_count)
    gpios,              \* pin levels of the gpio daemon (pins 4 and 7)
    pi_connected,       \* LaserAlignmentListener.pi.connected
    log_connected,      \* LaserAlignmentListener.log_server.connected
    disable_microphone, \* LaserAlignmentListener.disable_microphone
    task,               \* start_laser_task: "done" | "running" | "cancelled"
    pc,                 \* suspension point of laser_alignment_task
    data,               \* buffer returned by record_data
    result,             \* value returned by analyze_data
    cpc,                \* suspension point of the caller of start/stop/restart
    cop,                \* the operation the caller invoked last
    cres,               \* how that operation ended
    writes,             \* pin writes issued by the last step: <<pin, level>>
    sent,               \* messages written to the subscriber by the last step
    run,                \* history: consecutive detections handed to handle_interlock
    prev,               \* history: count at the entry of the last handle_interlock
    latest_data,        \* SerialTemperatureScanner.latest_data: label -> value
    rolling_temperature,\* SerialTemperatureScanner.rolling_temperature
    first_run,          \* SerialTemperatureScanner.first_run
    fan_pi_connected,   \* SerialTemperatureScanner.pi.connected
    s_connected,        \* SerialTemperatureScanner.connected (subscriber)
    s_task,             \* SerialTemperatureScanner.task: "none" | "running" | "cancelled"
    s_pc,               \* suspension point of serial_temperature_task
    readings,           \* history: the chunk get_data read in the current cycle
    means,              \* history: the means computed so far, newest first,
                        \* the last temperature_windows of them
    alive               \* history: loop tasks of the listener created and not
                        \* ended (by an exception or a cancellation)

avars == <<count, gpios, pi_connected, log_connected, disable_microphone, task,
           pc, data, result, cpc, cop, cres, writes, sent, run, prev, alive>>

svars == <<latest_data, rolling_temperature, first_run, fan_pi_connected,
           s_connected, s_task, s_pc, readings, means>>

Min(a, b) == IF a < b THEN a ELSE b

(***************************************************************************)
(* Telemetry messages                                                      *)
(***************************************************************************)
RelayErrorMsg ==
    [id |-> "error", code |-> 1,
     message |-> "Not configured properly before actuating relay."]
SetInterruptStateMsg(v) == [id |-> "set_interrupt_state", value |-> v]
TaskExceptedMsg == [raw |-> "LI: Exception: Main task excepted"]

MsgId(m) == IF "id" \in DOMAIN m THEN m.id ELSE "none"

\* variant: the message is written whether or not a subscriber is connected
write_if_connected_always(msg) == <<msg>>

\* write_if_connected: the messages that reach the subscriber
write_if_connected(msg) == IF log_connected THEN <<msg>> ELSE <<>>

\* schemas/set_interrupt_state.json
set_interrupt_status_validator(msg) ==
    /\ DOMAIN msg = {"id", "value"}
    /\ msg.id = "set_interrupt_state"
    /\ msg.value \in {"open", "close", "reset"}

\* schemas/interrupt_status.json
interrupt_status_validator(msg) ==
    /\ DOMAIN msg = {"id", "value"}
    /\ msg.id = "interrupt_status"
    /\ msg.value \in {"open", "closed"}

InterruptStatusMsg(v) == [id |-> "interrupt_status", value |-> v]

\* variant: the open level is reported with the word of the schema
status_value_open(pin_value) == IF pin_value = 1 THEN "closed" ELSE "open"

\* the match statement of get_relay_status
status_value(pin_value) == IF pin_value = 1 THEN "closed" ELSE "opened"

\* restart() calls the validator object itself instead of its validate()
\* method; a Draft7Validator is not callable, the call raises TypeError.
ValidatorObjectIsCallable == FALSE

(***************************************************************************)
(* analyze_data                                                            *)
(***************************************************************************)
\* variant: a failed analysis counts as a detection
analyze_data_failure_detects(buf) ==
    IF buf.raises THEN TRUE ELSE buf.peak > THRESHOLD * buf.bkg

\* variant: the comparison includes the boundary
analyze_data_inclusive(buf) ==
    IF buf.raises THEN FALSE ELSE buf.peak >= THRESHOLD * buf.bkg

analyze_data(buf) ==
    IF buf.raises THEN FALSE ELSE buf.peak > THRESHOLD * buf.bkg

(***************************************************************************)
(* set_relay                                                               *)
(***************************************************************************)
\* variant: the actuator check is skipped
set_relay_allowed_always == TRUE

\* the actuator check at the head of set_relay
set_relay_allowed == pi_connected

\* the level written by set_relay(setting)
relay_written(setting) == setting

\* set_relay with a connected actuator: one pin write, no message
set_relay(setting) ==
    /\ gpios' = [gpios EXCEPT ![relay_gpio] = relay_written(setting)]
    /\ writes' = << <<relay_gpio, relay_written(setting)>> >>

\* variant: the state message is written although the actuation failed
set_relay_raise_sent_with_state ==
    write_if_connected(RelayErrorMsg)
        \o write_if_connected(SetInterruptStateMsg("open"))

\* set_relay with the actuator not connected: error message, ValueError
set_relay_raise_sent == write_if_connected(RelayErrorMsg)

(***************************************************************************)
(* Initial state: after LaserAlignmentListener.__init__                    *)
(***************************************************************************)
AudioInit ==
    /\ count = 0
    /\ gpios = [p \in Pins |-> 0]
    /\ pi_connected \in BOOLEAN
    /\ log_connected = FALSE
    /\ disable_microphone \in BOOLEAN
    /\ task = "done"
    /\ pc = "none"
    /\ data = NoBuffer
    /\ result = FALSE
    /\ cpc = "idle"
    /\ cop = "none"
    /\ cres = "none"
    /\ writes = <<>>
    /\ sent = <<>>
    /\ run = 0
    /\ prev = 0
    /\ alive = 0

(***************************************************************************)
(* laser_alignment_task: the audio loop                                    *)
(***************************************************************************)
\* An exception escapes the while loop: the handler outside the loop writes
\* a string to the subscriber, logs, and the task ends.
task_excepted(msgs) ==
    /\ task' = "done"
    /\ alive' = alive - 1
    /\ pc' = "exited"
    /\ sent' = msgs \o write_if_connected(TaskExceptedMsg)

\* variant: the interlock closes on the second detection of a streak
interlock_triggered_early(data_result, c) == data_result /\ c > 0

\* variant: the closing comparison is off by one more
interlock_triggered_late(data_result, c) == data_result /\ c > count_threshold

\* the closing condition of handle_interlock
interlock_triggered(data_result, c) == data_result /\ c > count_threshold - 1

\* variant: a non-detection decrements the count instead of clearing it
next_count_decay(data_result, c) ==
    IF data_result THEN c + 1 ELSE IF c > 0 THEN c - 1 ELSE 0

\* count after a call that does not close the interlock
next_count(data_result, c) == IF data_result THEN c + 1 ELSE 0

\* variant: the count is not reset after the re-opening
count_after_reopen_stale == count

\* count after the interlock has been re-opened
count_after_reopen == 0

\* record_data: check_input_settings and rec run in the executor
record_data ==
    /\ task = "running" /\ pc = "record"
    /\ \/ /\ \E b \in Buffers : data' = b
          /\ pc' = "analyze"
          /\ sent' = <<>>
          /\ UNCHANGED <<task, alive>>
       \/ /\ task_excepted(<<>>)
          /\ UNCHANGED data
    /\ writes' = <<>>
    /\ UNCHANGED <<count, gpios, pi_connected, log_connected, disable_microphone,
                   result, cpc, cop, cres, run, prev>>
    /\ UNCHANGED svars

\* variant: the simulated microphone delivers a tone that analyses
sim_buffer_tone == [peak |-> MaxPeak, bkg |-> 0, raises |-> FALSE]

\* simulation mode: record_data returns np.zeros(shape=(150, 2)) and fs is
\* None, so `T = 1.0 / fs` raises TypeError inside analyze_data
sim_buffer == [peak |-> 0, bkg |-> 0, raises |-> TRUE]

\* record_data in simulation mode: no device is checked or read
sim_record_data ==
    /\ task = "running" /\ pc = "record"
    /\ data' = sim_buffer
    /\ pc' = "analyze"
    /\ writes' = <<>> /\ sent' = <<>>
    /\ UNCHANGED <<count, gpios, pi_connected, log_connected, disable_microphone,
                   task, result, cpc, cop, cres, run, prev>>
    /\ UNCHANGED alive
    /\ UNCHANGED svars

analyze_step ==
    /\ task = "running" /\ pc = "analyze"
    /\ result' = analyze_data(data)
    /\ pc' = "handle"
    /\ writes' = <<>> /\ sent' = <<>>
    /\ UNCHANGED <<count, gpios, pi_connected, log_connected, disable_microphone,
                   task, data, cpc, cop, cres, run, prev>>
    /\ UNCHANGED alive
    /\ UNCHANGED svars

\* handle_interlock up to its first suspension point
handle_interlock ==
    /\ task = "running" /\ pc = "handle"
    /\ run' = IF result THEN Min(run + 1, MaxRun) ELSE 0
    /\ prev' = count
    /\ IF interlock_triggered(result, count)
       THEN \* close_laser_interrupt -> set_relay_on
            IF set_relay_allowed
            THEN /\ set_relay(RelayON)
                 /\ sent' = <<>>
                 /\ pc' = "close_pub"
                 /\ UNCHANGED <<count, task, alive>>
            ELSE /\ task_excepted(set_relay_raise_sent)
                 /\ writes' = <<>>
                 /\ UNCHANGED <<count, gpios>>
       ELSE /\ count' = next_count(result, count)
            /\ pc' = "record"
            /\ writes' = <<>> /\ sent' = <<>>
            /\ UNCHANGED <<gpios, task, alive>>
    /\ UNCHANGED <<pi_connected, log_connected, disable_microphone, data, result,
                   cpc, cop, cres>>
    /\ UNCHANGED svars

\* close_laser_interrupt after the relay write: validate, publish; then
\* handle_interlock starts its asyncio.sleep(10)
close_publish ==
    /\ task = "running" /\ pc = "close_pub"
    /\ IF set_interrupt_status_validator(SetInterruptStateMsg("close"))
       THEN /\ sent' = write_if_connected(SetInterruptStateMsg("close"))
            /\ pc' = "cooldown"
            /\ UNCHANGED <<task, alive>>
       ELSE task_excepted(<<>>)
    /\ writes' = <<>>
    /\ UNCHANGED <<count, gpios, pi_connected, log_connected, disable_microphone,
                   data, result, cpc, cop, cres, run, prev>>
    /\ UNCHANGED svars

\* the sleep ends: open_laser_interrupt -> set_relay_off
cooldown_end ==
    /\ task = "running" /\ pc = "cooldown"
    /\ IF set_relay_allowed
       THEN /\ set_relay(RelayOFF)
            /\ sent' = <<>>
            /\ pc' = "open_pub"
            /\ UNCHANGED <<task, alive>>
       ELSE /\ task_excepted(set_relay_raise_sent)
            /\ writes' = <<>>
            /\ UNCHANGED gpios
    /\ UNCHANGED <<count, pi_connected, log_connected, disable_microphone,
                   data, result, cpc, cop, cres, run, prev>>
    /\ UNCHANGED svars

\* open_laser_interrupt after the relay write: validate, publish; then
\* handle_interlock resets the count and the loop records again
open_publish ==
    /\ task = "running" /\ pc = "open_pub"
    /\ IF set_interrupt_status_validator(SetInterruptStateMsg("open"))
       THEN /\ sent' = write_if_connected(SetInterruptStateMsg("open"))
            /\ count' = count_after_reopen
            /\ pc' = "record"
            /\ UNCHANGED <<task, alive>>
       ELSE /\ task_excepted(<<>>)
            /\ UNCHANGED count
    /\ writes' = <<>>
    /\ UNCHANGED <<gpios, pi_connected, log_connected, disable_microphone,
                   data, result, cpc, cop, cres, run, prev>>
    /\ UNCHANGED svars

laser_alignment_task ==
    \/ record_data
    \/ analyze_step
    \/ handle_interlock
    \/ close_publish
    \/ cooldown_end
    \/ open_publish

(***************************************************************************)
(* start / stop / restart                                                  *)
(***************************************************************************)
\* variant: the loop task is created although the actuation failed
task_created_anyway == "running"

\* the ValueError of set_relay leaves start() before create_task: the task
\* is the one there was
task_after_failed_start == task

\* start(): open_laser_interrupt -> set_relay_off
start ==
    /\ cpc = "idle"
    /\ cop' = "start"
    /\ IF set_relay_allowed
       THEN /\ set_relay(RelayOFF)
            /\ sent' = <<>>
            /\ cpc' = "start_pub"
            /\ cres' = "pending"
            /\ UNCHANGED <<task, alive>>
       ELSE /\ sent' = set_relay_raise_sent
            /\ writes' = <<>>
            /\ cpc' = "idle"
            /\ cres' = "ValueError"
            /\ task' = task_after_failed_start
            /\ UNCHANGED alive
            /\ UNCHANGED gpios
    /\ UNCHANGED <<count, pi_connected, log_connected, disable_microphone,
                   pc, data, result, run, prev>>
    /\ UNCHANGED svars

\* variant: start() does not cancel the task it replaces
tasks_cancelled_by_start_none == IF task = "running" THEN 0 ELSE 0

\* `if not self.start_laser_task.done(): self.start_laser_task.cancel()`:
\* the number of tasks start() cancels
tasks_cancelled_by_start == IF task = "running" THEN 1 ELSE 0

\* start() after the relay write: publish, cancel the running task, create
\* the new one unless the microphone is disabled
start_finish ==
    /\ cpc = "start_pub"
    /\ sent' = write_if_connected(SetInterruptStateMsg("open"))
    /\ IF ~disable_microphone
       THEN /\ task' = "running"
            /\ alive' = alive - tasks_cancelled_by_start + 1
            /\ pc' = "record"
            /\ data' = NoBuffer
            /\ result' = FALSE
       ELSE /\ task' = IF task = "running" THEN "cancelled" ELSE task
            /\ alive' = alive - tasks_cancelled_by_start
            /\ UNCHANGED <<pc, data, result>>
    /\ cpc' = "idle"
    /\ cres' = "ok"
    /\ writes' = <<>>
    /\ UNCHANGED <<count, gpios, pi_connected, log_connected, disable_microphone,
                   cop, run, prev>>
    /\ UNCHANGED svars

\* stop(): cancel() returns True for a task that is not done, and awaiting the
\* cancelled task raises CancelledError in stop() (the task catches Exception
\* only); otherwise close_laser_interrupt -> set_relay_on
stop ==
    /\ cpc = "idle"
    /\ cop' = "stop"
    /\ IF task = "running"
       THEN /\ task' = "cancelled"
            /\ alive' = alive - 1
            /\ cpc' = "idle"
            /\ cres' = "CancelledError"
            /\ writes' = <<>> /\ sent' = <<>>
            /\ UNCHANGED gpios
       ELSE /\ UNCHANGED <<task, alive>>
            /\ IF set_relay_allowed
               THEN /\ set_relay(RelayON)
                    /\ sent' = <<>>
                    /\ cpc' = "stop_pub"
                    /\ cres' = "pending"
               ELSE /\ sent' = set_relay_raise_sent
                    /\ writes' = <<>>
                    /\ cpc' = "idle"
                    /\ cres' = "ValueError"
                    /\ UNCHANGED gpios
    /\ UNCHANGED <<count, pi_connected, log_connected, disable_microphone,
                   pc, data, result, run, prev>>
    /\ UNCHANGED svars

stop_finish ==
    /\ cpc = "stop_pub"
    /\ sent' = write_if_connected(SetInterruptStateMsg("close"))
    /\ cpc' = "idle"
    /\ cres' = "ok"
    /\ writes' = <<>>
    /\ UNCHANGED <<count, gpios, pi_connected, log_connected, disable_microphone,
                   task, pc, data, result, cop, run, prev>>
    /\ UNCHANGED alive
    /\ UNCHANGED svars

\* restart(): the call of the validator object raises, restart() re-raises
\* Exception("Msg not valid.") before write_if_connected and before
\* open_laser_interrupt
restart ==
    /\ cpc = "idle"
    /\ ~ValidatorObjectIsCallable
    /\ cop' = "restart"
    /\ cres' = "Exception"
    /\ writes' = <<>> /\ sent' = <<>>
    /\ UNCHANGED <<count, gpios, pi_connected, log_connected, disable_microphone,
                   task, pc, data, result, cpc, run, prev>>
    /\ UNCHANGED alive
    /\ UNCHANGED svars

\* get_relay_status(): read the relay pin, build the status message,
\* validate it (a failure is re-raised as Exception("msg not valid.")),
\* publish it, return `not pin_value`; cres holds the returned value
get_relay_status ==
    /\ cpc = "idle"
    /\ pi_connected
    /\ cop' = "get_relay_status"
    /\ LET pin_value == gpios[relay_gpio]
           msg == InterruptStatusMsg(status_value(pin_value))
       IN  IF interrupt_status_validator(msg)
           THEN /\ sent' = write_if_connected(msg)
                /\ cres' = IF pin_value = 0 THEN "True" ELSE "False"
           ELSE /\ sent' = <<>>
                /\ cres' = "Exception"
    /\ writes' = <<>>
    /\ UNCHANGED <<count, gpios, pi_connected, log_connected, disable_microphone,
                   task, pc, data, result, cpc, run, prev>>
    /\ UNCHANGED alive
    /\ UNCHANGED svars

(***************************************************************************)
(* Environment: the gpio daemon and the telemetry subscriber               *)
(***************************************************************************)
pi_connection_change ==
    /\ pi_connected' = ~pi_connected
    /\ writes' = <<>> /\ sent' = <<>>
    /\ UNCHANGED <<count, gpios, log_connected, disable_microphone, task, pc,
                   data, result, cpc, cop, cres, run, prev>>
    /\ UNCHANGED alive
    /\ UNCHANGED svars

subscriber_change ==
    /\ log_connected' = ~log_connected
    /\ writes' = <<>> /\ sent' = <<>>
    /\ UNCHANGED <<count, gpios, pi_connected, disable_microphone, task, pc,
                   data, result, cpc, cop, cres, run, prev>>
    /\ UNCHANGED alive
    /\ UNCHANGED svars

(***************************************************************************)
(* SerialTemperatureScanner: values, frames and parsing                    *)
(***************************************************************************)
lal_vars == <<count, pi_connected, log_connected, disable_microphone, task, pc,
              data, result, cpc, cop, cres, run, prev, alive>>

\* The text after "=" of a token: a numeric literal (num, its value) or any
\* other text, for which float() raises ValueError.
Num(n) == [num |-> TRUE, val |-> n]
Bad == [num |-> FALSE, val |-> 0]

\* A comma-separated token: wf is false when splitting it on "=" does not
\* give exactly two parts.
Tok(k, v) == [wf |-> TRUE, key |-> k, val |-> v]
Malformed == [wf |-> FALSE, key |-> "", val |-> Bad]

Temps == (fan_turn_off_temp - 1)..MaxTemp

\* a line that is still being written when the chunk is read
PartialLine == <<Tok("C01", Num(0))>>
BlankLine == <<>>

DataLines ==
    {<<Tok("C01", Num(t))>> : t \in Temps}
    \cup {<<Tok("C01", Num(MaxTemp)), Tok("C02", Num(MaxTemp)), Malformed>>,
          <<Tok("C01", Num(MaxTemp)), Tok("C02", Bad), Tok("C03", Num(MaxTemp))>>,
          <<Tok("C02", Num(MaxTemp))>>,
          <<Tok("C09", Num(MaxTemp))>>,
          <<Tok("C01", Bad)>>}

\* the lines used in every chunk shape
ShapeLines == {<<Tok("C01", Num(t))>> : t \in {fan_turn_off_temp - 1, fan_turn_on_temp}}

\* The chunks a read returns, as their newline-separated lines: a complete
\* line between two partial ones, a single line, and chunks that end with
\* one or two newlines.
Chunks ==
    {<<PartialLine, l, PartialLine>> : l \in DataLines}
    \cup {<<l>> : l \in ShapeLines}
    \cup {<<l, PartialLine, BlankLine>> : l \in ShapeLines}
    \cup {<<l, PartialLine, BlankLine, BlankLine>> : l \in ShapeLines}

\* no chunk: the read raised, or the cycle has not read yet
NoChunk == <<>>

\* variant: the chunk is split as it was read
rstrip_none(ch) == ch

\* str.rstrip() on the chunk: trailing blank lines disappear
RECURSIVE rstrip(_)
rstrip(ch) ==
    IF ch = <<>> THEN <<>>
    ELSE IF ch[Len(ch)] = BlankLine THEN rstrip(SubSeq(ch, 1, Len(ch) - 1))
    ELSE ch

\* readings.split("\n")[-2] raises IndexError below two lines
has_latest_reading(ch) == Len(rstrip(ch)) >= 2
latest_reading(ch) == rstrip(ch)[Len(rstrip(ch)) - 1]

\* variant: the assignment replaces the table by the one entry
dict_set_fresh(d, k, v) == [x \in {k} |-> v]

\* d[k] = v
dict_set(d, k, v) == [x \in (DOMAIN d) \cup {k} |-> IF x = k THEN v ELSE d[x]]

\* the body of the token loop of get_data; every exception is swallowed
apply_token(ld, t) ==
    IF t.wf /\ t.key \in DOMAIN sensor_dict
    THEN dict_set(ld, sensor_dict[t.key], t.val)
    ELSE ld

RECURSIVE apply_tokens(_, _)
apply_tokens(ld, toks) ==
    IF toks = <<>> THEN ld
    ELSE apply_tokens(apply_token(ld, Head(toks)), Tail(toks))

(***************************************************************************)
(* SerialTemperatureScanner: fan and rolling window                        *)
(***************************************************************************)
s_write_if_connected(msg) == IF s_connected THEN <<msg>> ELSE <<>>

FanErrorMsg ==
    [id |-> "error", code |-> 1,
     message |-> "Not configured properly actuating fan."]
GetDataErrorMsg == [id |-> "error", code |-> 2, message |-> "Received exception"]
ConvertErrorMsg ==
    [id |-> "error", code |-> 3, message |-> "Failed to convert to int."]
TaskErrorMsg == [id |-> "error", code |-> 4, message |-> "Task had an exception"]
SetFanMsg(setting) ==
    [id |-> "set_fan", value |-> IF setting = FanON THEN "on" ELSE "off"]
NewTemperatureMsg(m) == [id |-> "new_temperature", value |-> m]

RECURSIVE GCD(_, _)
GCD(a, b) == IF b = 0 THEN a ELSE GCD(b, a % b)

\* the float n / d
Rat(n, d) == [n |-> n \div GCD(n, d), d |-> d \div GCD(n, d)]

RECURSIVE sum_values(_, _)
sum_values(nd, keys) ==
    IF keys = {} THEN 0
    ELSE LET k == CHOOSE x \in keys : TRUE
         IN nd[k].val + sum_values(nd, keys \ {k})

\* float() succeeds on every reading
all_numeric(nd) == \A k \in DOMAIN nd : nd[k].num

\* new_temperature / len(new_data)
mean_temperature(nd) == Rat(sum_values(nd, DOMAIN nd), Cardinality(DOMAIN nd))

\* variant: one threshold, no band
fan_command_no_band(v) == IF v >= fan_turn_on_temp THEN "on" ELSE "off"

\* the fan decision of handle_data: the level to command, or "none"
fan_command(v) ==
    IF v >= fan_turn_on_temp THEN "on"
    ELSE IF v < fan_turn_off_temp THEN "off"
    ELSE "none"

fan_level(cmd) == IF cmd = "on" THEN FanON ELSE FanOFF

\* variant: the fan follows the mean of all channels (its integer part)
fan_decision_value_mean(nd) == sum_values(nd, DOMAIN nd) \div Cardinality(DOMAIN nd)

\* the value handle_data compares with the thresholds: the converted entry
\* of the fan sensor, new_data[self.fan_sensor]
fan_decision_value(nd) == nd[fan_sensor].val

\* variant: the newest mean is appended at the tail
updated_window_tail(w, first, m) ==
    IF first
    THEN [i \in 1..Len(w) |-> m]
    ELSE [i \in 1..Len(w) |-> IF i = Len(w) THEN m ELSE w[i + 1]]

\* variant: the first computation writes position 0 only
updated_window_no_fill(w, first, m) ==
    [i \in 1..Len(w) |-> IF i = 1 THEN m ELSE IF first THEN w[i] ELSE w[i - 1]]

\* variant: every computation fills the window
updated_window_always_fill(w, first, m) == [i \in 1..Len(w) |-> m]

\* the window after one computation
updated_window(w, first, m) ==
    IF first
    THEN [i \in 1..Len(w) |-> m]
    ELSE [i \in 1..Len(w) |-> IF i = 1 THEN m ELSE w[i - 1]]

\* variant: the table starts with a zero for every configured channel
initial_latest_data_zeroed ==
    [x \in {sensor_dict[k] : k \in DOMAIN sensor_dict} |-> Num(0)]

\* __init__ builds latest_data from sensor_dict while it is still empty
\* (config() fills sensor_dict afterwards): the table starts empty
initial_latest_data == [x \in {} |-> Bad]

SerialInit ==
    /\ latest_data = initial_latest_data
    /\ rolling_temperature = [i \in 1..temperature_windows |-> Rat(0, 1)]
    /\ first_run = TRUE
    /\ fan_pi_connected = TRUE
    /\ s_connected = FALSE
    /\ s_task = "none"
    /\ s_pc = "none"
    /\ readings = NoChunk
    /\ means = <<>>

\* variant: the cooldown is a blocking call (time.sleep), the event loop
\* runs nothing else until it returns
cooldown_is_blocking_call == TRUE

\* handle_interlock waits with `await asyncio.sleep(10)`: the coroutine is
\* suspended and the event loop is left to the other tasks
cooldown_blocks_loop == FALSE

\* the event loop can run a step of another task
event_loop_free == ~(cooldown_blocks_loop /\ task = "running" /\ pc = "cooldown")

\* SerialTemperatureScanner.start(): the loop task is created
s_start ==
    /\ s_task = "none"
    /\ s_task' = "running"
    /\ s_pc' = "get_data"
    /\ writes' = <<>> /\ sent' = <<>>
    /\ UNCHANGED <<latest_data, rolling_temperature, first_run, fan_pi_connected,
                   s_connected, gpios>>
    /\ UNCHANGED readings
    /\ UNCHANGED means
    /\ UNCHANGED lal_vars

\* get_data: a read error, or a chunk without a second-to-last line, ends in
\* the handler (error message 2); otherwise the tokens of that line are applied
get_data_from(chunks) ==
    /\ s_task = "running" /\ s_pc = "get_data"
    /\ event_loop_free
    /\ \/ /\ sent' = s_write_if_connected(GetDataErrorMsg)
          /\ readings' = NoChunk
          /\ UNCHANGED latest_data
       \/ \E ch \in chunks :
            /\ readings' = ch
            /\ IF has_latest_reading(ch)
               THEN /\ latest_data' = apply_tokens(latest_data, latest_reading(ch))
                    /\ sent' = <<>>
               ELSE /\ sent' = s_write_if_connected(GetDataErrorMsg)
                    /\ UNCHANGED latest_data
    /\ s_pc' = "handle_data"
    /\ writes' = <<>>
    /\ UNCHANGED <<rolling_temperature, first_run, fan_pi_connected, s_connected,
                   s_task, gpios>>
    /\ UNCHANGED means
    /\ UNCHANGED lal_vars

get_data == get_data_from(Chunks)

\* variant: set_fan does not look at the actuator connection
set_fan_allowed_always == TRUE

\* the actuator check at the head of set_fan
set_fan_allowed == fan_pi_connected

\* handle_data raises: the fan sensor has no entry (KeyError), set_fan is
\* called without a connected actuator, or a reading is not numeric
handle_data_raises ==
    \/ fan_sensor \notin DOMAIN latest_data
    \/ /\ fan_sensor \in DOMAIN latest_data
       /\ latest_data[fan_sensor].num
       /\ \/ /\ fan_command(fan_decision_value(latest_data)) # "none"
             /\ ~set_fan_allowed
          \/ ~all_numeric(latest_data)

\* variant: the handler encloses the loop, an exception ends the task
task_after_exception_ends == "done"

\* serial_temperature_task catches Exception inside its while loop: the
\* task goes on
task_after_exception == "running"

\* handle_data(self.latest_data), and the handler of serial_temperature_task
\* for what it raises
handle_data ==
    /\ s_task = "running" /\ s_pc = "handle_data"
    /\ event_loop_free
    /\ s_task' = IF handle_data_raises THEN task_after_exception ELSE s_task
    /\ s_pc' = IF s_task' = "running" THEN "sleep" ELSE "exited"
    /\ IF fan_sensor \notin DOMAIN latest_data
       THEN \* KeyError is logged, then raised again by the comparison
            /\ sent' = s_write_if_connected(TaskErrorMsg)
            /\ writes' = <<>>
            /\ UNCHANGED <<latest_data, rolling_temperature, first_run, gpios, means>>
       ELSE IF ~latest_data[fan_sensor].num
       THEN \* float() raises: error message 3, return
            /\ sent' = s_write_if_connected(ConvertErrorMsg)
            /\ writes' = <<>>
            /\ UNCHANGED <<latest_data, rolling_temperature, first_run, gpios, means>>
       ELSE LET v == latest_data[fan_sensor].val
                cmd == fan_command(fan_decision_value(latest_data))
                nd == dict_set(latest_data, fan_sensor, Num(v))
                m == mean_temperature(nd)
                fan_sent == IF cmd = "none" THEN <<>>
                            ELSE s_write_if_connected(SetFanMsg(fan_level(cmd)))
            IN  /\ latest_data' = nd
                /\ IF cmd # "none" /\ ~set_fan_allowed
                   THEN \* set_fan raises ValueError
                        /\ sent' = s_write_if_connected(FanErrorMsg)
                                     \o s_write_if_connected(TaskErrorMsg)
                        /\ writes' = <<>>
                        /\ UNCHANGED <<rolling_temperature, first_run, gpios, means>>
                   ELSE /\ IF cmd = "none"
                           THEN writes' = <<>> /\ UNCHANGED gpios
                           ELSE /\ writes' = << <<fan_gpio, fan_level(cmd)>> >>
                                /\ gpios' = [gpios EXCEPT ![fan_gpio] = fan_level(cmd)]
                        /\ IF ~all_numeric(nd)
                           THEN \* float() raises in the averaging loop
                                /\ sent' = fan_sent \o s_write_if_connected(TaskErrorMsg)
                                /\ UNCHANGED <<rolling_temperature, first_run, means>>
                           ELSE /\ sent' = fan_sent
                                      \o s_write_if_connected(NewTemperatureMsg(m))
                                /\ rolling_temperature' =
                                      updated_window(rolling_temperature, first_run, m)
                                /\ first_run' = FALSE
                                /\ means' = SubSeq(<<m>> \o means, 1,
                                                   Min(Len(means) + 1,
                                                       temperature_windows))
    /\ readings' = NoChunk
    /\ UNCHANGED <<fan_pi_connected, s_connected>>
    /\ UNCHANGED lal_vars

\* asyncio.sleep(sample_wait_time) ends
s_sleep ==
    /\ s_task = "running" /\ s_pc = "sleep"
    /\ event_loop_free
    /\ s_pc' = "get_data"
    /\ writes' = <<>> /\ sent' = <<>>
    /\ UNCHANGED <<latest_data, rolling_temperature, first_run, fan_pi_connected,
                   s_connected, s_task, gpios>>
    /\ UNCHANGED readings
    /\ UNCHANGED means
    /\ UNCHANGED lal_vars

serial_temperature_task ==
    \/ get_data
    \/ handle_data
    \/ s_sleep

\* Runner.run is cancelled: serial_scanner.stop() (the method inherited from
\* the tcpip server: the subscriber connection is closed) and the end of the
\* event loop, which cancels the loop task. No statement of the shutdown
\* path refers to the fan pin.
runner_cancelled ==
    /\ s_task = "running"
    /\ s_task' = "cancelled"
    /\ s_connected' = FALSE
    /\ writes' = <<>> /\ sent' = <<>>
    /\ UNCHANGED <<latest_data, rolling_temperature, first_run, fan_pi_connected,
                   s_pc, gpios>>
    /\ UNCHANGED readings
    /\ UNCHANGED means
    /\ UNCHANGED lal_vars

fan_pi_connection_change ==
    /\ fan_pi_connected' = ~fan_pi_connected
    /\ writes' = <<>> /\ sent' = <<>>
    /\ UNCHANGED <<latest_data, rolling_temperature, first_run, s_connected,
                   s_task, s_pc, gpios>>
    /\ UNCHANGED readings
    /\ UNCHANGED means
    /\ UNCHANGED lal_vars

s_subscriber_change ==
    /\ s_task = "running"
    /\ s_connected' = ~s_connected
    /\ writes' = <<>> /\ sent' = <<>>
    /\ UNCHANGED <<latest_data, rolling_temperature, first_run, fan_pi_connected,
                   s_task, s_pc, gpios>>
    /\ UNCHANGED readings
    /\ UNCHANGED means
    /\ UNCHANGED lal_vars

vars == <<avars, svars>>

Init == AudioInit /\ SerialInit

Next ==
    \/ laser_alignment_task
    \/ start
    \/ start_finish
    \/ stop
    \/ stop_finish
    \/ restart
    \/ get_relay_status
    \/ pi_connection_change
    \/ subscriber_change

Spec == Init /\ [][Next]_vars

\* the event loop runs a task that is ready
FairSpec == Spec /\ WF_vars(laser_alignment_task)

\* The serial scanner alone, with the listener as constructed
SerialSpecInit == Init /\ pi_connected /\ ~disable_microphone

SerialNext ==
    \/ s_start
    \/ serial_temperature_task
    \/ runner_cancelled
    \/ fan_pi_connection_change
    \/ s_subscriber_change

SerialSpec == SerialSpecInit /\ [][SerialNext]_vars

\* The listener in simulation mode: the actuator is a MockPio, connected
\* from its construction on, and the microphone is the zero buffer. The
\* steps of the closure sequence are left out of the next-state relation of
\* this specification because the task never reaches them here.
SimInit == Init /\ pi_connected

SimNext ==
    \/ sim_record_data
    \/ analyze_step
    \/ handle_interlock
    \/ start
    \/ start_finish
    \/ stop
    \/ stop_finish
    \/ restart
    \/ get_relay_status
    \/ subscriber_change

SimSpec == SimInit /\ [][SimNext]_vars

(***************************************************************************)
(* Runner.run: both loops on one event loop                                *)
(***************************************************************************)
\* Runner.run starts the listener once
runner_start_listener == cop = "none" /\ start

\* chunks read while both loops run: one complete line with a reading that
\* commands the fan OFF or ON, in each chunk shape
ConcChunks ==
    {ch \in Chunks :
        \E t \in {fan_turn_off_temp - 1, fan_turn_on_temp} :
            \E i \in 1..Len(ch) : ch[i] = <<Tok("C01", Num(t))>>}

conc_get_data == get_data_from(ConcChunks)

ConcNext ==
    \/ s_start
    \/ runner_start_listener
    \/ start_finish
    \/ laser_alignment_task
    \/ conc_get_data
    \/ handle_data
    \/ s_sleep

ConcSpec == SerialSpecInit /\ [][ConcNext]_vars

\* schemas/heartbeat.json, the schema Runner.__init__ loads
HeartbeatMsg == [id |-> "heartbeat", value |-> "alive"]

\* both start() coroutines of the TaskGroup have returned: Runner.run is in
\* its `while True` loop
runner_in_loop ==
    /\ s_task # "none"
    /\ cop = "start" /\ cpc = "idle" /\ cres = "ok"

\* one turn of the loop of Runner.run: `await asyncio.sleep(SLEEP)` ends and
\* the loop sleeps again; the validator of Runner.__init__ is never used and
\* nothing is written
runner_sleep ==
    /\ runner_in_loop
    /\ writes' = <<>> /\ sent' = <<>>
    /\ UNCHANGED <<count, gpios, pi_connected, log_connected, disable_microphone,
                   task, pc, data, result, cpc, cop, cres, run, prev>>
    /\ UNCHANGED alive
    /\ UNCHANGED svars

\* both loops, with the subscriber of each server connecting and leaving
TelemetryNext ==
    \/ ConcNext
    \/ subscriber_change
    \/ s_subscriber_change

TelemetrySpec == SerialSpecInit /\ [][TelemetryNext]_vars

\* Runner.run as a whole: the two loops, their subscribers, and the loop of
\* run() itself
RunnerNext ==
    \/ TelemetryNext
    \/ runner_sleep

RunnerSpec == SerialSpecInit /\ [][RunnerNext]_vars

(***************************************************************************)
(* Properties of the interlock controller                                  *)
(***************************************************************************)
RelayWriteON == << <<relay_gpio, RelayON>> >>
RelayWriteOFF == << <<relay_gpio, RelayOFF>> >>

\* C1: a true detection handled while hit_count = count_threshold - 1 (the
\* count_threshold-th consecutive detection) commands the relay CLOSED.
C1_ClosesOnThresholdDetection ==
    [][(handle_interlock /\ result /\ count = count_threshold - 1 /\ pi_connected)
         => writes' = RelayWriteON]_vars

\* C2: the audio loop commands the relay CLOSED only when the detections
\* handed to handle_interlock end in a run of at least count_threshold
\* consecutive true results.
C2_NoCloseWithoutRun ==
    [][(handle_interlock /\ writes' # <<>>) => run' >= count_threshold]_vars

\* six consecutive detections have been counted, the seventh result is a
\* non-detection about to be handled, and the relay is still OPEN
C2_Witness ==
    /\ task = "running" /\ pc = "handle" /\ ~result
    /\ run = count_threshold - 1 /\ count = count_threshold - 1
    /\ gpios[relay_gpio] = RelayOFF

\* C3: 0 <= hit_count <= count_threshold in every reachable state.
C3_CountInRange == count \in 0..count_threshold

C3_Witness == count = count_threshold /\ task = "running" /\ pc = "record"

\* C4: a handle_interlock call with a non-detection sets hit_count to 0
\* whatever its prior value, and issues no relay write and no message.
C4_NonDetectionResets ==
    [][(handle_interlock /\ ~result)
         => (count' = 0 /\ writes' = <<>> /\ sent' = <<>> /\ gpios' = gpios)]_vars

\* the state right after a non-detection was handled at the largest count
C4_Witness ==
    /\ task = "running" /\ pc = "record" /\ run = 0
    /\ prev = count_threshold /\ count = 0
    /\ writes = <<>> /\ sent = <<>>

\* the closure sequence has ended: relay OPEN again, count cleared
Reopened == pc = "record" /\ count = 0 /\ gpios[relay_gpio] = RelayOFF

\* C5: after a streak-triggered closure the task publishes the closed state,
\* then sleeps with the relay CLOSED, then commands the relay OPEN, then
\* publishes the open state and clears hit_count; and unless the task ends
\* (cancelled, or the actuator is not connected) or a start() is replacing
\* it, the closure always leads to relay OPEN with hit_count = 0.
C5_ClosureSequence ==
    /\ [][(laser_alignment_task /\ pc = "close_pub" /\ cpc # "start_pub")
            => /\ pc' = "cooldown"
               /\ sent' = write_if_connected(SetInterruptStateMsg("close"))
               /\ gpios' = gpios /\ gpios[relay_gpio] = RelayON]_vars
    /\ [][(laser_alignment_task /\ pc = "cooldown" /\ pi_connected
                                 /\ cpc # "start_pub")
            => /\ pc' = "open_pub"
               /\ gpios[relay_gpio] = RelayON
               /\ writes' = RelayWriteOFF
               /\ gpios'[relay_gpio] = RelayOFF]_vars
    /\ [][(laser_alignment_task /\ pc = "open_pub")
            => /\ sent' = write_if_connected(SetInterruptStateMsg("open"))
               /\ count' = 0
               /\ Reopened']_vars
    /\ ((task = "running" /\ pc = "close_pub")
          ~> (Reopened \/ task # "running" \/ cpc = "start_pub"))

\* the state right after the open state was published to a subscriber
C5_Witness ==
    /\ task = "running" /\ Reopened /\ prev = count_threshold
    /\ sent = <<SetInterruptStateMsg("open")>>

\* C6: after stop() has ended without an actuator failure the relay is at
\* the CLOSED level.
C6_StopClosesRelay ==
    (cop = "stop" /\ cpc = "idle" /\ cres \in {"ok", "CancelledError"})
        => gpios[relay_gpio] = RelayON

\* C8: restart() called with a connected actuator leaves the relay at the
\* OPEN level.
C8_RestartOpensRelay ==
    [][(restart /\ pi_connected) => gpios'[relay_gpio] = RelayOFF]_vars

\* the steps that call set_relay
AttemptsRelay ==
    \/ start
    \/ stop /\ task # "running"
    \/ handle_interlock /\ interlock_triggered(result, count)
    \/ cooldown_end

\* C9: with the actuator not connected a relay actuation writes no pin,
\* leaves every pin level as it was, and the operation ends with the error
\* (no second attempt): the caller gets ValueError, the task leaves its loop.
C9_NotConnectedNoWrite ==
    [][(AttemptsRelay /\ ~pi_connected)
         => /\ writes' = <<>>
            /\ gpios' = gpios
            /\ sent' \in {<<>>, <<RelayErrorMsg>>, <<RelayErrorMsg, TaskExceptedMsg>>}
            /\ \/ cpc' = "idle" /\ cres' = "ValueError"
               \/ task' = "done" /\ pc' = "exited"]_vars

\* start() failed on a closed relay: the pin keeps the CLOSED level
C9_Witness ==
    /\ ~pi_connected /\ cop = "start" /\ cres = "ValueError" /\ cpc = "idle"
    /\ gpios[relay_gpio] = RelayON /\ writes = <<>>
    /\ sent = <<RelayErrorMsg>>

\* C10: the audio loop stops only on cancellation: a running task never
\* ends in any other way.
C10_LoopStopsOnlyOnCancel ==
    [][(task = "running" /\ task' # "running") => task' = "cancelled"]_vars

(***************************************************************************)
(* Properties of the shutdown of the serial scanner                        *)
(***************************************************************************)
\* C7: once the runner has been cancelled and the serial scanner stopped,
\* the fan pin reads OFF.
C7_ShutdownFanOff == s_task = "cancelled" => gpios[fan_gpio] = FanOFF

(***************************************************************************)
(* Properties of the serial loop                                           *)
(***************************************************************************)
\* C11: an exception of a serial cycle is caught inside the loop: the task
\* stays alive, an error message is written when a subscriber is connected,
\* the task sleeps, the end of the sleep is never blocked and starts the
\* next cycle; the task ends only by cancellation.
C11_SerialLoopSurvives ==
    /\ [][(handle_data /\ handle_data_raises)
            => /\ s_task' = "running" /\ s_pc' = "sleep"
               /\ (s_connected => (sent' # <<>> /\ sent'[Len(sent')] = TaskErrorMsg))]_vars
    /\ [][(get_data /\ latest_data' = latest_data)
            => (s_task' = "running" /\ s_pc' = "handle_data")]_vars
    /\ [][(s_task = "running" /\ s_task' # "running") => s_task' = "cancelled"]_vars
    /\ []((s_task = "running" /\ s_pc = "sleep") => ENABLED s_sleep)
    /\ [][(s_task = "running" /\ s_pc = "sleep" /\ s_pc' # s_pc)
            => (s_task' = "running" /\ s_pc' = "get_data")]_vars

\* a cycle has just failed on a fan actuation without actuator
C11_Witness ==
    /\ s_task = "running" /\ s_pc = "sleep" /\ ~fan_pi_connected
    /\ sent = <<FanErrorMsg, TaskErrorMsg>>

\* C12: the cooldown of handle_interlock suspends only the audio task: in
\* every state where the audio task is in its cooldown and the serial loop
\* task is running, a step of the serial loop (read a chunk, handle the data,
\* end its sleep) is enabled: it never waits for the cooldown to end.
C12_CooldownSuspendsOnlyAudio ==
    (task = "running" /\ pc = "cooldown" /\ s_task = "running")
        => ENABLED serial_temperature_task

\* the serial loop has just switched the fan on and updated the window while
\* the audio task is in its cooldown
C12_Witness ==
    /\ task = "running" /\ pc = "cooldown"
    /\ s_task = "running" /\ s_pc = "sleep"
    /\ writes = << <<fan_gpio, FanON>> >>
    /\ ~first_run
    /\ rolling_temperature[1] = Rat(fan_turn_on_temp, 1)

\* C13: the two loops share no mutable state: under every interleaving a
\* step of the audio side (start and the steps of laser_alignment_task)
\* leaves the fan pin, the channel table, the rolling window and its first-run
\* flag unchanged and writes no pin but the relay pin; a step of the serial
\* side leaves count and the relay pin unchanged and writes no pin but the
\* fan pin.
C13_LoopsShareNoState ==
    /\ [][(laser_alignment_task \/ start \/ start_finish)
            => /\ gpios'[fan_gpio] = gpios[fan_gpio]
               /\ UNCHANGED <<latest_data, rolling_temperature, first_run>>
               /\ \A i \in 1..Len(writes') : writes'[i][1] # fan_gpio]_vars
    /\ [][(s_start \/ serial_temperature_task)
            => /\ gpios'[relay_gpio] = gpios[relay_gpio]
               /\ UNCHANGED count
               /\ \A i \in 1..Len(writes') : writes'[i][1] # relay_gpio]_vars

\* the audio task has just closed the relay on its own pin while the serial
\* loop holds the fan on and has filled its table and window
C13_Witness ==
    /\ writes = RelayWriteON /\ pc = "close_pub"
    /\ count = count_threshold
    /\ gpios[fan_gpio] = FanON /\ gpios[relay_gpio] = RelayON
    /\ fan_sensor \in DOMAIN latest_data /\ ~first_run
    /\ s_task = "running"

\* C14: in every serial cycle that reaches the fan decision with the
\* actuator connected, a designated-channel reading >= fan_turn_on_temp puts
\* the fan pin ON and a reading <= fan_turn_off_temp puts it OFF, the
\* boundary values included on both sides.
C14_FanThresholdsInclusive ==
    [][(/\ handle_data
        /\ fan_pi_connected
        /\ fan_sensor \in DOMAIN latest_data
        /\ latest_data[fan_sensor].num)
         => /\ (latest_data[fan_sensor].val >= fan_turn_on_temp
                  => gpios'[fan_gpio] = FanON)
            /\ (latest_data[fan_sensor].val <= fan_turn_off_temp
                  => gpios'[fan_gpio] = FanOFF)]_vars

\* C15: a designated-channel reading strictly between fan_turn_off_temp and
\* fan_turn_on_temp leaves the fan relay as it was, whatever its level:
\* handle_data writes no pin, the pin levels are unchanged and no set_fan
\* message is written.
C15_BandLeavesFanUnchanged ==
    [][(/\ handle_data
        /\ fan_sensor \in DOMAIN latest_data
        /\ latest_data[fan_sensor].num
        /\ latest_data[fan_sensor].val > fan_turn_off_temp
        /\ latest_data[fan_sensor].val < fan_turn_on_temp)
         => /\ writes' = <<>>
            /\ gpios' = gpios
            /\ \A i \in 1..Len(sent') : MsgId(sent'[i]) # "set_fan"]_vars

\* a cycle with a reading inside the band has completed with the fan on: the
\* only message is the new mean
C15_Witness ==
    /\ s_task = "running" /\ s_pc = "sleep"
    /\ gpios[fan_gpio] = FanON
    /\ fan_sensor \in DOMAIN latest_data
    /\ latest_data[fan_sensor] = Num(fan_turn_on_temp - 1)
    /\ writes = <<>>
    /\ Len(sent) = 1 /\ MsgId(sent[1]) = "new_temperature"

\* C16: the fan is actuated only on a change: a cycle whose reading commands
\* the level the fan pin already has writes no pin and writes no set_fan
\* message.
C16_NoRedundantActuation ==
    [][(/\ handle_data
        /\ fan_pi_connected
        /\ fan_sensor \in DOMAIN latest_data
        /\ latest_data[fan_sensor].num
        /\ fan_command(latest_data[fan_sensor].val) # "none"
        /\ fan_level(fan_command(latest_data[fan_sensor].val)) = gpios[fan_gpio])
         => /\ writes' = <<>>
            /\ \A i \in 1..Len(sent') : MsgId(sent'[i]) # "set_fan"]_vars

\* C17 (as stated): whatever chunk get_data has just read, it applies the
\* tokens of the second-to-last newline-separated line of that chunk, also
\* when the chunk ends with a newline.
C17_ParsesSecondToLastLine ==
    [][(get_data /\ readings' # NoChunk /\ Len(readings') >= 2)
         => latest_data' =
              apply_tokens(latest_data, readings'[Len(readings') - 1])]_vars

\* position of the last line of the chunk that is not blank, 0 if none
LastNonBlankIndex(ch) ==
    IF \A i \in 1..Len(ch) : ch[i] = BlankLine THEN 0
    ELSE CHOOSE i \in 1..Len(ch) :
            /\ ch[i] # BlankLine
            /\ \A j \in (i + 1)..Len(ch) : ch[j] = BlankLine

\* C17 (amended): get_data selects the line before the last non-blank line
\* of the chunk it has just read (trailing newlines and whitespace are
\* stripped before the split) and applies its tokens; when there is no such
\* line (read error, or fewer than two lines up to the last non-blank one)
\* the table is unchanged and error message 2 is written to a connected
\* subscriber. The last non-blank line is never parsed.
C17_ParsesLineBeforeLastNonBlank ==
    [][get_data
         => IF readings' # NoChunk /\ LastNonBlankIndex(readings') >= 2
            THEN /\ latest_data' =
                      apply_tokens(latest_data,
                                   readings'[LastNonBlankIndex(readings') - 1])
                 /\ sent' = <<>>
            ELSE /\ latest_data' = latest_data
                 /\ sent' = s_write_if_connected(GetDataErrorMsg)]_vars

\* a chunk that ends with a newline has been read: the complete line before
\* the last non-blank line is in the table, not the raw second-to-last line
C17_Witness ==
    /\ s_task = "running" /\ s_pc = "handle_data"
    /\ readings = <<<<Tok("C01", Num(fan_turn_on_temp))>>, PartialLine, BlankLine>>
    /\ latest_data = [x \in {fan_sensor} |-> Num(fan_turn_on_temp)]

\* the token names a configured channel
names_channel(t) == t.wf /\ t.key \in DOMAIN sensor_dict

\* the entry of a channel is the same in both tables
same_entry(ld1, ld2, label) ==
    /\ (label \in DOMAIN ld1) = (label \in DOMAIN ld2)
    /\ label \in DOMAIN ld1 => ld1[label] = ld2[label]

\* C18: when get_data parses a frame (the tokens of one frame name distinct
\* channels), no error is written, every token id=numeric of a configured
\* channel sets that channel's value, and a token of a configured channel
\* whose value is not numeric (C02=BAD) is skipped: that channel keeps the
\* entry it had.
C18_NonNumericTokenSkipped ==
    [][(get_data /\ readings' # NoChunk /\ has_latest_reading(readings'))
         => LET line == latest_reading(readings')
            IN  /\ sent' = <<>>
                /\ \A i \in 1..Len(line) :
                     names_channel(line[i])
                       => IF line[i].val.num
                          THEN /\ sensor_dict[line[i].key] \in DOMAIN latest_data'
                               /\ latest_data'[sensor_dict[line[i].key]] = line[i].val
                          ELSE same_entry(latest_data', latest_data,
                                          sensor_dict[line[i].key])]_vars

\* the token is not of the form id=numeric
malformed_token(t) == ~t.wf \/ ~t.val.num

\* C19: malformed telemetry does not abort the cycle: when the frame
\* selected in this cycle contains a malformed token and a numeric reading of
\* the designated channel, the actuator is connected, and every non-numeric
\* entry of the table comes from this frame, handle_data carries out the fan
\* decision and the rolling-average update: the commanded level is written,
\* the window takes the new mean at position 0, the first-run flag is
\* cleared and new_temperature is written to a connected subscriber.
C19_MalformedDoesNotAbortCycle ==
    [][(/\ handle_data
        /\ fan_pi_connected
        /\ readings # NoChunk /\ has_latest_reading(readings)
        /\ LET line == latest_reading(readings)
           IN  /\ \E i \in 1..Len(line) : malformed_token(line[i])
               /\ \E i \in 1..Len(line) :
                     /\ names_channel(line[i]) /\ line[i].val.num
                     /\ sensor_dict[line[i].key] = fan_sensor
               /\ \A k \in DOMAIN latest_data :
                     ~latest_data[k].num
                       => \E i \in 1..Len(line) :
                            /\ names_channel(line[i])
                            /\ sensor_dict[line[i].key] = k)
         => /\ fan_command(latest_data[fan_sensor].val) # "none"
                 => writes' = << <<fan_gpio,
                                  fan_level(fan_command(latest_data[fan_sensor].val))>> >>
            /\ ~first_run'
            /\ s_connected
                 => \E i \in 1..Len(sent') : MsgId(sent'[i]) = "new_temperature"]_vars

\* C20: the rolling window has exactly temperature_windows entries in every
\* reachable state, and after every handle_data that completes its update
\* (the designated reading converts and nothing raises) position 0 holds the
\* mean just computed: the sum of the table's values divided by their
\* number, which is also the value of the new_temperature message.
C20_WindowLengthAndNewest ==
    /\ [](Len(rolling_temperature) = temperature_windows)
    /\ [][(/\ handle_data
            /\ ~handle_data_raises
            /\ latest_data[fan_sensor].num)
             => /\ rolling_temperature'[1].n * Cardinality(DOMAIN latest_data')
                     = sum_values(latest_data', DOMAIN latest_data')
                         * rolling_temperature'[1].d
                /\ s_connected
                     => sent'[Len(sent')] = NewTemperatureMsg(rolling_temperature'[1])]_vars

\* a later update has completed: the newest mean is at position 0, in front
\* of a different older one
C20_Witness ==
    /\ s_task = "running" /\ s_pc = "sleep"
    /\ ~first_run
    /\ rolling_temperature[1] # rolling_temperature[2]
    /\ sent = <<NewTemperatureMsg(rolling_temperature[1])>>

\* handle_data reaches the end of its update: the designated reading
\* converts and nothing raises
completes_update == ~handle_data_raises /\ latest_data[fan_sensor].num

\* C21: the first-run flag is set exactly until the first mean is computed;
\* the handle_data that computes the first mean sets every window entry to
\* that mean and clears the flag, the flag is never set again, and every
\* later computation keeps the older entries (entry i takes the value of
\* entry i-1) instead of overwriting the whole window.
C21_FirstFillOnce ==
    /\ [](first_run <=> means = <<>>)
    /\ [][(handle_data /\ completes_update /\ first_run)
            => /\ ~first_run'
               /\ means' = <<mean_temperature(latest_data')>>
               /\ \A i \in 1..temperature_windows :
                    rolling_temperature'[i] = means'[1]]_vars
    /\ [][first_run' => first_run]_vars
    /\ [][(handle_data /\ completes_update /\ ~first_run)
            => \A i \in 2..temperature_windows :
                 rolling_temperature'[i] = rolling_temperature[i - 1]]_vars

\* the first mean has just been computed: it fills the window
C21_Witness ==
    /\ s_task = "running" /\ s_pc = "sleep"
    /\ ~first_run /\ Len(means) = 1
    /\ means[1].n > 0
    /\ \A i \in 1..temperature_windows : rolling_temperature[i] = means[1]

\* C22: each computation after the first shifts the window one position
\* towards the tail and writes the new mean at position 0; in every state
\* the window starts with the computed means, newest first (all of the last
\* temperature_windows means once that many were computed), and the entries
\* behind them still hold the first mean.
C22_ShiftKeepsLastMeans ==
    /\ [][(handle_data /\ completes_update /\ ~first_run)
            => /\ rolling_temperature'[1] = mean_temperature(latest_data')
               /\ means'[1] = mean_temperature(latest_data')
               /\ \A i \in 2..temperature_windows :
                    rolling_temperature'[i] = rolling_temperature[i - 1]]_vars
    /\ [](\A i \in 1..Len(means) : rolling_temperature[i] = means[i])
    /\ [](\A i \in (Len(means) + 1)..temperature_windows :
            ~first_run => rolling_temperature[i] = means[Len(means)])

\* temperature_windows different means have been computed: the window holds
\* them, newest first
C22_Witness ==
    /\ s_task = "running" /\ s_pc = "sleep"
    /\ Len(means) = temperature_windows
    /\ \A i, j \in 1..temperature_windows : i # j => means[i] # means[j]
    /\ rolling_temperature = means

\* C23: a message is written only to a connected subscriber. A step of the
\* listener with no subscriber on its server, or of the scanner with none on
\* its own, writes nothing, and the step goes on as it would otherwise (the
\* interlock sequence continues, the window is updated, the task stays
\* alive); with a subscriber connected the message written is exactly the
\* one the step built.
C23_WriteOnlyWhenConnected ==
    /\ [][((laser_alignment_task \/ start \/ start_finish) /\ ~log_connected)
            => sent' = <<>>]_vars
    /\ [][((s_start \/ serial_temperature_task) /\ ~s_connected)
            => sent' = <<>>]_vars
    /\ [][close_publish
            => /\ task' = "running" /\ pc' = "cooldown"
               /\ log_connected => sent' = <<SetInterruptStateMsg("close")>>]_vars
    /\ [][open_publish
            => /\ task' = "running" /\ pc' = "record"
               /\ log_connected => sent' = <<SetInterruptStateMsg("open")>>]_vars
    /\ [][(handle_data /\ completes_update)
            => /\ s_task' = "running" /\ s_pc' = "sleep" /\ ~first_run'
               /\ s_connected
                    => /\ sent'[Len(sent')]
                            = NewTemperatureMsg(mean_temperature(latest_data'))
                       /\ writes' # <<>>
                            => sent'[1] = SetFanMsg(writes'[1][2])]_vars

\* the listener has just delivered its close message to its subscriber,
\* while the scanner, without a subscriber, has filled its window
C23_Witness ==
    /\ task = "running" /\ pc = "cooldown"
    /\ log_connected /\ sent = <<SetInterruptStateMsg("close")>>
    /\ s_task = "running" /\ ~s_connected /\ ~first_run

\* C24: a message that fails its validation is suppressed and the caller is
\* not interrupted: the operation that built it ends normally (restart,
\* get_relay_status), and the loop step that built it leaves the task
\* running (close_laser_interrupt, open_laser_interrupt).
C24_InvalidMessageDropped ==
    /\ [][restart => (sent' = <<>> /\ cres' # "Exception")]_vars
    /\ [][(/\ get_relay_status
            /\ ~interrupt_status_validator(
                   InterruptStatusMsg(status_value(gpios[relay_gpio]))))
            => (sent' = <<>> /\ cres' \in {"True", "False"})]_vars
    /\ [][(/\ close_publish
            /\ ~set_interrupt_status_validator(SetInterruptStateMsg("close")))
            => (sent' = <<>> /\ task' = "running")]_vars
    /\ [][(/\ open_publish
            /\ ~set_interrupt_status_validator(SetInterruptStateMsg("open")))
            => (sent' = <<>> /\ task' = "running")]_vars

\* the kinds of telemetry message that have a schema
MessageKinds ==
    {"error", "set_interrupt_state", "interrupt_status", "set_fan",
     "new_temperature", "heartbeat"}

\* C25: every message written to a subscriber is a message of one of the
\* declared kinds (the only payloads a schema can have validated): no
\* schema-less payload is ever written.
C25_OnlyValidatedMessages ==
    \A i \in 1..Len(sent) : MsgId(sent[i]) \in MessageKinds

\* C26: a failure while analysing a buffer is caught inside analyze_data:
\* the result is FALSE, the task goes on to handle_interlock, and that call
\* treats the cycle as a non-detection: count becomes 0, no pin is written,
\* nothing is sent and the loop records again.
C26_AnalysisFailureIsNoDetection ==
    /\ [][(analyze_step /\ data.raises)
            => (result' = FALSE /\ task' = "running" /\ pc' = "handle")]_vars
    /\ [][(handle_interlock /\ data.raises)
            => /\ count' = 0
               /\ writes' = <<>> /\ sent' = <<>>
               /\ gpios' = gpios
               /\ task' = "running" /\ pc' = "record"]_vars

\* a failed analysis has just been handled after a streak of detections:
\* the count is back to 0
C26_Witness ==
    /\ task = "running" /\ pc = "record"
    /\ data.raises /\ ~result
    /\ prev = count_threshold /\ count = 0

\* C27: analyze_data returns TRUE exactly when the analysis does not fail
\* and the peak (maximum PSD in 995-1005 Hz) is strictly greater than 10
\* times the background (median PSD in 950-1050 Hz); the result is a
\* function of the buffer of that call alone.
C27_DetectionIffPeakAboveThreshold ==
    [][analyze_step
         => result' = (~data.raises /\ data.peak > 10 * data.bkg)]_vars

\* a buffer whose peak is exactly 10 times a non-zero background has been
\* analysed while a streak was running: no detection
C27_Witness ==
    /\ task = "running" /\ pc = "handle"
    /\ ~data.raises /\ data.bkg > 0 /\ data.peak = 10 * data.bkg
    /\ ~result /\ count > 0

\* C28: start() commands the relay to its OPEN level first, and the audio
\* loop task is created only by the part of start() that follows a
\* successful actuation; until a task has been created no buffer is
\* recorded and nothing is counted; a start() whose actuation fails
\* (actuator not connected) writes no pin and creates no task.
C28_StartActuatesBeforeLoop ==
    /\ [][(start /\ pi_connected)
            => /\ writes' = RelayWriteOFF /\ gpios'[relay_gpio] = RelayOFF
               /\ cpc' = "start_pub"
               /\ task' = task /\ pc' = pc]_vars
    /\ [][(start /\ ~pi_connected)
            => /\ writes' = <<>> /\ gpios' = gpios
               /\ cpc' = "idle" /\ cres' = "ValueError"
               /\ task' = task /\ pc' = pc]_vars
    /\ [][(task' = "running" /\ (task # "running" \/ pc = "none" \/ pc = "exited"))
            => (start_finish /\ cop = "start" /\ cres = "pending")]_vars
    /\ [](pc = "none" => (task = "done" /\ count = 0 /\ run = 0 /\ data = NoBuffer))

\* a start() has failed on a disconnected actuator: there is no task and
\* nothing has been recorded
C28_Witness ==
    /\ cop = "start" /\ cpc = "idle" /\ cres = "ValueError"
    /\ ~pi_connected /\ ~disable_microphone
    /\ task = "done" /\ pc = "none" /\ count = 0

\* C29: get_relay_status answers from the level the relay pin has at the
\* call, for both levels: it returns TRUE exactly when the relay is open
\* (level RelayOFF), and the message it writes to a connected subscriber is
\* interrupt_status with value "open" for an open relay and "closed" for a
\* closed one.
C29_StatusFromPin ==
    [][get_relay_status
         => /\ cres' = IF gpios[relay_gpio] = RelayOFF THEN "True" ELSE "False"
            /\ log_connected
                 => sent' = <<InterruptStatusMsg(
                                IF gpios[relay_gpio] = RelayOFF
                                THEN "open" ELSE "closed")>>]_vars

\* C30: the window is advanced only in a cycle whose get_data obtained a
\* frame: when the read of the cycle raised, or its chunk had fewer than two
\* lines up to the last non-blank one, handle_data leaves the window and
\* the first-run flag as they were, computes no mean and writes no
\* new_temperature message.
C30_NoFrameNoWindowUpdate ==
    [][(/\ handle_data
        /\ (readings = NoChunk \/ LastNonBlankIndex(readings) < 2))
         => /\ UNCHANGED <<rolling_temperature, first_run, means>>
            /\ \A i \in 1..Len(sent') : MsgId(sent'[i]) # "new_temperature"]_vars

\* C31: while the runner is in its loop, heartbeat messages keep being
\* published alongside the two loops: in every state where both loop tasks
\* run and a subscriber is connected, the cooldown of the interlock and the
\* sleep between two serial cycles included, a step that writes the
\* heartbeat message is possible.
C31_HeartbeatAlongsideLoops ==
    (/\ runner_in_loop
     /\ task = "running" /\ s_task = "running"
     /\ log_connected /\ s_connected)
        => ENABLED (/\ RunnerNext
                    /\ \E i \in 1..Len(sent') : sent'[i] = HeartbeatMsg)

\* the pin writes of a fan command
fan_writes(cmd) ==
    IF cmd = "none" THEN <<>> ELSE << <<fan_gpio, fan_level(cmd)>> >>

\* C32: the fan decision is a function of the latest raw value of the
\* designated channel and the two thresholds alone. In every handle_data
\* with the actuator connected whose designated entry is a number, the level
\* written is the one the two comparisons give for that entry, whatever the
\* other channels hold (numeric or not) and whatever the window holds; and
\* without a numeric designated entry nothing is written. Two runs with the
\* same designated values therefore command the same levels.
C32_FanDependsOnDesignatedOnly ==
    /\ [][(/\ handle_data
            /\ fan_pi_connected
            /\ fan_sensor \in DOMAIN latest_data
            /\ latest_data[fan_sensor].num)
            => LET v == latest_data[fan_sensor].val
               IN  writes' = fan_writes(IF v >= fan_turn_on_temp THEN "on"
                                        ELSE IF v < fan_turn_off_temp THEN "off"
                                        ELSE "none")]_vars
    /\ [][(/\ handle_data
            /\ (fan_sensor \notin DOMAIN latest_data
                  \/ ~latest_data[fan_sensor].num))
            => (writes' = <<>> /\ gpios' = gpios)]_vars

\* the fan has just been switched off on a designated reading below the off
\* threshold, while another channel is hot enough to put the mean, now at
\* the head of a window that held a different mean, inside the band
C32_Witness ==
    /\ s_task = "running" /\ s_pc = "sleep"
    /\ writes = << <<fan_gpio, FanOFF>> >>
    /\ latest_data = [x \in {"Ambient", "Laser"} |->
                        IF x = "Ambient" THEN Num(fan_turn_off_temp - 1)
                        ELSE Num(MaxTemp)]
    /\ rolling_temperature[1] = Rat(fan_turn_off_temp - 1 + MaxTemp, 2)
    /\ rolling_temperature[2] # rolling_temperature[1]

\* C33: while the audio loop task runs, the relay is at the CLOSED level
\* only inside the closure sequence of handle_interlock: in every state
\* where the task is recording, analysing or about to count, the relay pin
\* is at the OPEN level.
C33_ClosedOnlyDuringCooldown ==
    (task = "running" /\ pc \in {"record", "analyze", "handle"})
        => gpios[relay_gpio] = RelayOFF

\* the step writes a set_interrupt_state message with this value
publishes_state(v) ==
    \E i \in 1..Len(sent') : sent'[i] = SetInterruptStateMsg(v)

\* C34: a set_interrupt_state "open" or "close" message is written only by
\* the part of an operation that follows its successful relay write: the
\* publishing points are entered only by a step that has written the
\* corresponding level, a state message is written only from its publishing
\* point, and a step whose actuation fails (actuator not connected) enters
\* no publishing point and writes no state message, only the error message
\* (and, in the loop task, the text of its exception handler).
C34_StatePublishedAfterWrite ==
    /\ [][((cpc' = "start_pub" /\ cpc # "start_pub")
              \/ (pc' = "open_pub" /\ pc # "open_pub"))
            => (writes' = RelayWriteOFF /\ gpios'[relay_gpio] = RelayOFF)]_vars
    /\ [][((cpc' = "stop_pub" /\ cpc # "stop_pub")
              \/ (pc' = "close_pub" /\ pc # "close_pub"))
            => (writes' = RelayWriteON /\ gpios'[relay_gpio] = RelayON)]_vars
    /\ [][publishes_state("open")
            => \/ start_finish /\ cpc = "start_pub"
               \/ open_publish /\ pc = "open_pub"]_vars
    /\ [][publishes_state("close")
            => \/ stop_finish /\ cpc = "stop_pub"
               \/ close_publish /\ pc = "close_pub"]_vars
    /\ [][(AttemptsRelay /\ ~pi_connected)
            => /\ ~publishes_state("open") /\ ~publishes_state("close")
               /\ cpc' \in {"start_pub", "stop_pub"} => cpc' = cpc
               /\ pc' \in {"close_pub", "open_pub"} => pc' = pc
               /\ log_connected
                    => (sent' # <<>> /\ sent'[1] = RelayErrorMsg)]_vars

\* the closing actuation of the loop task has just failed with a subscriber
\* connected: the error message and the text of the handler were written,
\* no state message, and the relay pin is still at the OPEN level
C34_Witness ==
    /\ ~pi_connected /\ log_connected
    /\ task = "done" /\ pc = "exited"
    /\ count = count_threshold /\ result
    /\ sent = <<RelayErrorMsg, TaskExceptedMsg>>
    /\ gpios[relay_gpio] = RelayOFF

C36_AtMostOneLoopTask ==
    /\ [](alive \in {0, 1})
    /\ [](alive = 1 <=> task = "running")
    /\ [][(start_finish /\ ~disable_microphone /\ task = "running")
            => (alive = 1 /\ alive' = 1 /\ task' = "running" /\ pc' = "record")]_vars
    /\ [][(stop /\ task = "running") => (alive' = 0 /\ task' = "cancelled")]_vars
    /\ [](disable_microphone => (alive = 0 /\ task = "done" /\ pc = "none"))

\* a start() has just created a loop task after an earlier task had counted
\* detections: one task is alive, at the head of its loop
C36_Witness ==
    /\ cop = "start" /\ cpc = "idle" /\ cres = "ok"
    /\ task = "running" /\ pc = "record" /\ data = NoBuffer
    /\ count > 1 /\ alive = 1

\* C37: a fan actuation failure aborts the rest of the serial cycle. With
\* the fan actuator not connected and a designated reading at or above the
\* on threshold or below the off threshold, handle_data writes no pin, leaves
\* the pin levels, the window and the first-run flag as they were and writes
\* no new_temperature message (a connected subscriber gets the error of
\* set_fan and the error of the task); a reading inside the band, in the
\* same situation, puts its mean at the head of the window.
C37_FanFailureAbortsCycle ==
    /\ [][(/\ handle_data
            /\ ~fan_pi_connected
            /\ fan_sensor \in DOMAIN latest_data
            /\ latest_data[fan_sensor].num
            /\ \/ latest_data[fan_sensor].val >= fan_turn_on_temp
               \/ latest_data[fan_sensor].val < fan_turn_off_temp)
            => /\ writes' = <<>> /\ gpios' = gpios
               /\ UNCHANGED <<rolling_temperature, first_run, means>>
               /\ \A i \in 1..Len(sent') : MsgId(sent'[i]) # "new_temperature"
               /\ s_connected => sent' = <<FanErrorMsg, TaskErrorMsg>>
               /\ s_task' = "running" /\ s_pc' = "sleep"]_vars
    /\ [][(/\ handle_data
            /\ ~fan_pi_connected
            /\ fan_sensor \in DOMAIN latest_data
            /\ latest_data[fan_sensor].num
            /\ latest_data[fan_sensor].val < fan_turn_on_temp
            /\ latest_data[fan_sensor].val >= fan_turn_off_temp
            /\ all_numeric(latest_data))
            => /\ writes' = <<>> /\ gpios' = gpios
               /\ ~first_run'
               /\ rolling_temperature'[1] = mean_temperature(latest_data')
               /\ s_connected
                    => sent' = <<NewTemperatureMsg(rolling_temperature'[1])>>]_vars

\* a cycle with a reading at the on threshold has just failed on the
\* disconnected actuator: the fan pin is still off and the window, filled
\* by an earlier cycle, does not hold the new reading
C37_Witness ==
    /\ s_task = "running" /\ s_pc = "sleep"
    /\ ~fan_pi_connected /\ s_connected
    /\ latest_data = [x \in {fan_sensor} |-> Num(fan_turn_on_temp)]
    /\ sent = <<FanErrorMsg, TaskErrorMsg>> /\ writes = <<>>
    /\ gpios[fan_gpio] = FanOFF
    /\ ~first_run
    /\ \A i \in 1..temperature_windows :
          rolling_temperature[i] = Rat(fan_turn_off_temp - 1, 1)

\* C38: until a frame carrying the designated channel has been parsed the
\* table has no entry for it (there is none before the loop starts, and
\* only a get_data whose selected line has a well-formed C01 token creates
\* it); as long as it is missing every handle_data fails before any
\* actuation: no pin is written, the fan pin keeps its level, the window
\* keeps its initial zeros with the first-run flag set, the failure is
\* reported (error code 4 to a connected subscriber) and the task goes on
\* to its sleep and the next cycle.
C38_NoDesignatedEntryNoActuation ==
    /\ [](s_task = "none" => fan_sensor \notin DOMAIN latest_data)
    /\ [][(fan_sensor \notin DOMAIN latest_data
              /\ fan_sensor \in DOMAIN latest_data')
            => /\ get_data
               /\ readings' # NoChunk /\ has_latest_reading(readings')
               /\ \E i \in 1..Len(latest_reading(readings')) :
                     /\ latest_reading(readings')[i].wf
                     /\ latest_reading(readings')[i].key = "C01"]_vars
    /\ [](fan_sensor \notin DOMAIN latest_data
            => /\ first_run /\ means = <<>>
               /\ \A i \in 1..temperature_windows :
                    rolling_temperature[i] = Rat(0, 1)
               /\ gpios[fan_gpio] = FanOFF)
    /\ [][(handle_data /\ fan_sensor \notin DOMAIN latest_data)
            => /\ writes' = <<>> /\ gpios' = gpios
               /\ UNCHANGED <<rolling_temperature, first_run, latest_data>>
               /\ sent' = s_write_if_connected(TaskErrorMsg)
               /\ s_task' = "running" /\ s_pc' = "sleep"]_vars

\* a cycle whose frame carried another channel only has just failed: the
\* error of the task was written, the window is untouched
C38_Witness ==
    /\ s_task = "running" /\ s_pc = "sleep" /\ s_connected
    /\ latest_data = [x \in {"Laser"} |-> Num(MaxTemp)]
    /\ sent = <<TaskErrorMsg>> /\ writes = <<>>
    /\ first_run
    /\ rolling_temperature = [i \in 1..temperature_windows |-> Rat(0, 1)]

\* the chunk of the cycle gave a selected line with a well-formed token of
\* this channel
line_names(ch, label) ==
    /\ ch # NoChunk /\ has_latest_reading(ch)
    /\ \E i \in 1..Len(latest_reading(ch)) :
          /\ names_channel(latest_reading(ch)[i])
          /\ sensor_dict[latest_reading(ch)[i].key] = label

\* C39: channel values persist across cycles. Only get_data changes the
\* values of the table, and only for the channels named by well-formed
\* tokens of the line it selected: every other channel, and every channel
\* when the read failed or gave no line, keeps the entry it had. The
\* handle_data of a cycle whose line did not name the designated channel
\* decides the fan on the retained designated value, and its mean is the
\* mean of the table as get_data left it, retained values included.
C39_ChannelValuesPersist ==
    /\ [][latest_data' # latest_data => get_data]_vars
    /\ [][get_data
            => \A k \in DOMAIN sensor_dict :
                 ~line_names(readings', sensor_dict[k])
                   => same_entry(latest_data', latest_data, sensor_dict[k])]_vars
    /\ [][(/\ handle_data
            /\ ~line_names(readings, fan_sensor)
            /\ fan_pi_connected
            /\ fan_sensor \in DOMAIN latest_data
            /\ latest_data[fan_sensor].num)
            => /\ writes' = fan_writes(fan_command(latest_data[fan_sensor].val))
               /\ all_numeric(latest_data)
                    => /\ rolling_temperature'[1] = mean_temperature(latest_data)
                       /\ means'[1] = mean_temperature(latest_data)]_vars

\* a cycle whose frame carried the second channel only has completed: the
\* fan was switched off on the designated value of the cycle before, and
\* the new mean is the mean of the retained and the new value
C39_Witness ==
    /\ s_task = "running" /\ s_pc = "sleep"
    /\ latest_data = [x \in {"Ambient", "Laser"} |->
                        IF x = "Ambient" THEN Num(fan_turn_off_temp - 1)
                        ELSE Num(MaxTemp)]
    /\ writes = << <<fan_gpio, FanOFF>> >>
    /\ means = <<Rat(fan_turn_off_temp - 1 + MaxTemp, 2),
                 Rat(fan_turn_off_temp - 1, 1)>>

====
